---- MODULE Spec2Model ----
(***************************************************************************)
(* circular_buffer<T, N> (src/circular_buffer.h): a fixed-capacity ring    *)
(* buffer with overwrite-on-full push_back, pop_front, checked and         *)
(* unchecked element access and position-based iterators.                  *)
(*                                                                         *)
(* The object is the four data members buffer_, size_, tail_ and _head;    *)
(* the template parameter N is fixed at construction.  std::size_t is      *)
(* modelled as an unsigned integer of SizeBits bits.  The member functions *)
(* are operators on a record of the four members, so that they can be      *)
(* applied to the live object, to a remembered earlier state and to a      *)
(* second instance alike.  Operators whose code can write outside buffer_  *)
(* or divide by zero return the SET of states the build can produce.       *)
(***************************************************************************)
EXTENDS Integers, Sequences, FiniteSets, TLC

\* ---------------------------------------------------------------- bounds
\* largest capacity N explored (N ranges over 0..MaxN)
MaxN == 3
\* number of distinct element values pushed / filled (1..MaxItem)
MaxItem == 2
\* width of std::size_t in the model
SizeBits == 3
\* longest run of push_back calls from construction that is logged
MaxLog == 5
\* calls with undefined behaviour (a store outside buffer_, a division by
\* zero) after which the program is followed no further
MaxOob == 2
\* largest offset n of it + n and it - n (n ranges over 0..MaxOffset)
MaxOffset == 3

SizeMod == 2 ^ SizeBits
Items == 1 .. MaxItem
\* value of a slot nobody has written yet
Default == 0
Values == Items \cup {Default}
\* indices handed to at()
Indices == 0 .. (MaxN + 1)
\* offsets handed to the iterators' operator+ and operator-
Offsets == 0 .. MaxOffset
\* the buffer instances an iterator can belong to: this one and another one
Instances == {"this", "other"}

VARIABLES
  N,        \* template parameter: the capacity
  buffer_,  \* T buffer_[N ? N : 1]
  size_,    \* std::size_t size_
  tail_,    \* std::size_t tail_
  _head,    \* std::size_t _head
  oob,      \* number of calls that stored outside buffer_ or divided by zero
  trapped,  \* the program was terminated by a division by zero
  track,    \* what is remembered: "calls" (last, pair, pushlog), "twin"
            \* or "iter"
  last,     \* the last call: name, argument, state before it, result
  pair,     \* progress of a pop_front(); push_back(x) pair
  pushlog,  \* items pushed since construction while only push_back ran
  pushOnly, \* only push_back has been called since construction
  fresh,    \* a second instance, constructed when clear() was last called
  it,       \* an iterator held by the caller: _circular_buffer and _pos
  itres     \* the last iterator expression evaluated and its value

vars == <<N, buffer_, size_, tail_, _head, oob, trapped, track, last, pair,
          pushlog, pushOnly, fresh, it, itres>>

\* number of slots of buffer_
Cap == IF N = 0 THEN 1 ELSE N

\* the object as a record of its data members
Self == [buffer_ |-> buffer_, size_ |-> size_, tail_ |-> tail_, _head |-> _head]

\* the data members right after construction, with storage b
Constructed(b) == [buffer_ |-> b, size_ |-> 0, tail_ |-> 0, _head |-> 1]

\* ------------------------------------------------------------- capacity
size(s) == s.size_

maxsize_ == N

empty(s) == size(s) = 0

full(s) == size(s) = N

\* ------------------------------------------------------ private helpers
\* _incrementtail_ with the wrap of tail_ left out
_incrementtail_no_wrap(s) ==
  [s EXCEPT !.tail_ = (s.tail_ + 1) % SizeMod, !.size_ = (s.size_ + 1) % SizeMod]

_incrementtail_(s) ==
  LET t == (s.tail_ + 1) % SizeMod
      n == (s.size_ + 1) % SizeMod
  IN  [s EXCEPT !.tail_ = IF t = N THEN 0 ELSE t, !.size_ = n]

\* _increment_head wrapping only after _head has passed N
_increment_head_wraps_late(s) ==
  LET h == (s._head + 1) % SizeMod
      n == (s.size_ + SizeMod - 1) % SizeMod
  IN  [s EXCEPT !._head = IF h > N THEN 0 ELSE h, !.size_ = n]

\* _increment_head with the decrement of size_ left out
_increment_head_keeps_size(s) ==
  LET h == (s._head + 1) % SizeMod
  IN  [s EXCEPT !._head = IF h = N THEN 0 ELSE h]

_increment_head(s) ==
  LET h == (s._head + 1) % SizeMod
      n == (s.size_ + SizeMod - 1) % SizeMod
  IN  [s EXCEPT !._head = IF h = N THEN 0 ELSE h, !.size_ = n]

\* (_head + i) % N; only evaluated for N > 0 (N = 0 divides by zero)
_position_inbuffer_(s, i) == ((s._head + i) % SizeMod) % N

\* buffer_[idx] = v.  A store past the end of buffer_ is undefined.  The
\* members size_, tail_ and _head follow buffer_ in the object, so the store
\* either changes no member (it lands in padding or outside the object) or
\* replaces the member that lies idx - Cap slots behind buffer_.
Store(s, idx, v) ==
  IF idx < Cap
    THEN { [s EXCEPT !.buffer_[idx] = v] }
    ELSE {s} \cup
         (CASE idx - Cap = 0 -> { [s EXCEPT !.size_ = v] }
            [] idx - Cap = 1 -> { [s EXCEPT !.tail_ = v] }
            [] idx - Cap = 2 -> { [s EXCEPT !._head = v] }
            [] OTHER -> {})

\* ----------------------------------------------------------- add/remove
\* push_back storing the item before the tail is advanced
push_back_stores_first(s, item) ==
  { LET s1 == _incrementtail_(w)
    IN  IF s1.size_ = N THEN _increment_head(s1) ELSE s1 :
      w \in Store(s, s.tail_, item) }

push_back(s, item) ==
  LET s1 == _incrementtail_(s)
      s2 == IF s1.size_ = N THEN _increment_head(s1) ELSE s1
  IN  Store(s2, s2.tail_, item)

\* index of the store push_back performs
push_back_index(s) == _incrementtail_(s).tail_

pop_front(s) == _increment_head(s)

\* clear resetting _head to slot 0
clear_head_zero(s) == [s EXCEPT !.size_ = 0, !.tail_ = 0, !._head = 0]

clear(s) == [s EXCEPT !.size_ = 0, !.tail_ = 0, !._head = 1]

\* ------------------------------------------------------- element access
\* operator[](i), N > 0
Subscript(s, i) == s.buffer_[_position_inbuffer_(s, i)]

\* the logical sequence begin()..end(), N > 0 and size() <= N
Logical(s) == [i \in 1 .. size(s) |-> Subscript(s, i - 1)]

\* -------------------------------------------------------------- iterators
\* an iterator over this buffer is its logical position _pos
begin(s) == 0

end(s) == size(s)

\* operator-(n): tmp._pos -= n
iter_minus(pos, n) == (pos + SizeMod - (n % SizeMod)) % SizeMod

\* operator*(): (*_circular_buffer)[_pos]
iter_deref(s, pos) == Subscript(s, pos)

\* operator++(): ++_pos
iter_incr(pos) == (pos + 1) % SizeMod

\* operator--(): --_pos
iter_decr(pos) == (pos + SizeMod - 1) % SizeMod

\* operator+ assigning n to _pos instead of adding it
iter_plus_assigns(pos, n) == n % SizeMod

\* operator+(n): tmp._pos += n
iter_plus(pos, n) == (pos + n) % SizeMod

\* rbegin() with the two factories swapped
rbegin_from_begin(s) == begin(s)

\* rbegin(): reverse_iterator(end()); the value is the wrapped iterator
rbegin(s) == end(s)

\* rend(): reverse_iterator(begin())
rend(s) == begin(s)

\* for (it = begin(); it != end(); ++it): the positions dereferenced
RECURSIVE forward_positions(_, _)
forward_positions(s, cur) ==
  IF cur = end(s) THEN <<>>
  ELSE <<cur>> \o forward_positions(s, iter_incr(cur))

\* for (r = rbegin(); r != rend(); ++r): the positions dereferenced.  *r of
\* std::reverse_iterator is *--tmp on a copy of the wrapped iterator and ++r
\* is -- on the wrapped iterator
RECURSIVE reverse_positions(_, _)
reverse_positions(s, r) ==
  IF r = rend(s) THEN <<>>
  ELSE <<iter_decr(r)>> \o reverse_positions(s, iter_decr(r))

\* the elements read at a sequence of positions
Deref(s, q) == [k \in 1 .. Len(q) |-> iter_deref(s, q[k])]

\* circular_buffer_iterator(circular_buffer, start_pos)
iterator(b, pos) == [buf |-> b, pos |-> pos]

\* operator!= joining the two tests with && instead of ||
operator_ne_both(a, b) == (a.buf # b.buf) /\ (a.pos # b.pos)

\* operator==
operator_eq(a, b) == (a.buf = b.buf) /\ (a.pos = b.pos)

\* operator!=
operator_ne(a, b) == (a.buf # b.buf) \/ (a.pos # b.pos)

\* result of an accessor: the slot referred to and the value read through it
Ref(s, pos) == [kind |-> "ref", idx |-> _position_inbuffer_(s, pos),
                val |-> iter_deref(s, pos)]
NoRet == [kind |-> "void", idx |-> -1, val |-> Default]
OutOfRange == [kind |-> "out_of_range", idx |-> -1, val |-> Default]

\* at indexing buffer_ with i itself
at_unmapped(s, i) ==
  IF i >= N THEN OutOfRange
  ELSE [kind |-> "ref", idx |-> i, val |-> s.buffer_[i]]

at(s, i) == IF i >= N THEN OutOfRange ELSE Ref(s, i)

front(s) == Ref(s, begin(s))

\* reference back(): N ? *(end()-1) : *end(), called with N > 0
back(s) == Ref(s, iter_minus(end(s), 1))

\* const_reference back() const: N ? *end()-1 : *end(), called with N > 0.
\* The operand *end()-1 is a temporary holding (element at end()) - 1; the
\* returned reference to it dangles, so the caller reads either that value
\* or whatever replaced it on the stack.
back_const(s) ==
  { [kind |-> "temporary", idx |-> -1, val |-> v] :
      v \in {iter_deref(s, end(s)) - 1} \cup Values }

\* ------------------------------------------------------------------ fill
\* one assignment *it = u of std::fill_n; with N = 0 the index is the
\* result of a division by zero, which (when it does not trap) may be any
\* index, inside buffer_ or past it
fill_store(s, pos, u) ==
  IF N = 0 THEN UNION { Store(s, idx, u) : idx \in 0 .. (Cap + 2) }
           ELSE Store(s, _position_inbuffer_(s, pos), u)

RECURSIVE fill_n(_, _, _, _)
fill_n(S, pos, n, u) ==
  IF n = 0 THEN S
  ELSE fill_n(UNION { fill_store(s, pos, u) : s \in S },
              (pos + 1) % SizeMod, n - 1, u)

\* fill assigning N elements instead of size()
fill_capacity(s, u) == fill_n({s}, begin(s), N, u)

\* std::fill_n(begin(), size(), u)
fill(s, u) == fill_n({s}, begin(s), size(s), u)

\* fill divides by zero: N = 0 and at least one assignment
fill_divides_by_zero(s) == N = 0 /\ size(s) > 0

\* ------------------------------------------------------------ bookkeeping
NoIterRes == [op |-> "none", n |-> 0, a |-> iterator("this", 0),
              b |-> iterator("this", 0), eq |-> FALSE, ne |-> FALSE]

NoFresh == [buffer_ |-> <<>>, size_ |-> 0, tail_ |-> 0, _head |-> 0]

NoPair == [stage |-> "none", before |-> <<>>]

Become(s) ==
  /\ buffer_' = s.buffer_
  /\ size_' = s.size_
  /\ tail_' = s.tail_
  /\ _head' = s._head

Unchanged == UNCHANGED <<buffer_, size_, tail_, _head>>

\* the call just made; the state before it and its result are kept when
\* calls are tracked
Remember(op, arg, ret) ==
  /\ last' = CASE track = "calls" ->
                    [op |-> op, arg |-> arg, pre |-> Self, ret |-> ret]
                [] track = "twin" ->
                    [op |-> op, arg |-> arg, pre |-> NoFresh, ret |-> NoRet]
                [] OTHER -> last
  /\ itres' = NoIterRes
  /\ UNCHANGED <<N, track, it>>

\* the push log is kept while only push_back has run, for one more call
\* after that, and then dropped
LogPush(item) ==
  IF track = "calls" /\ pushOnly /\ Len(pushlog) < MaxLog
    THEN pushlog' = Append(pushlog, item) /\ pushOnly' = TRUE
    ELSE pushlog' = (IF pushOnly THEN pushlog ELSE <<>>) /\ pushOnly' = FALSE

LogOther ==
  /\ pushlog' = (IF pushOnly THEN pushlog ELSE <<>>)
  /\ pushOnly' = FALSE

\* the second instance receives every mutating call the buffer receives
\* (capacities N > 0, where every call has exactly one outcome)
FreshAfter(f) == fresh' = IF fresh = NoFresh THEN NoFresh ELSE f

\* ----------------------------------------------------------------- state
Constructor ==
  /\ N \in 0 .. MaxN
  /\ buffer_ = [i \in 0 .. ((IF N = 0 THEN 1 ELSE N) - 1) |-> Default]
  /\ size_ = 0
  /\ tail_ = 0
  /\ _head = 1
  /\ oob = 0
  /\ trapped = FALSE
  /\ last = [op |-> "construct", arg |-> 0, pre |-> NoFresh, ret |-> NoRet]
  /\ pair = NoPair
  /\ pushlog = <<>>
  /\ pushOnly = TRUE
  /\ fresh = NoFresh
  /\ it = iterator("this", 0)
  /\ itres = NoIterRes

Init == Constructor /\ track = "calls"

InitTwin == Constructor /\ track = "twin"

InitIter == Constructor /\ track = "iter"

PushBack(item) ==
  /\ ~trapped
  /\ push_back_index(Self) >= Cap => oob < MaxOob
  /\ \E s \in push_back(Self, item) : Become(s)
  /\ oob' = IF push_back_index(Self) >= Cap THEN oob + 1 ELSE oob
  /\ Remember("push_back", item, NoRet)
  /\ LogPush(item)
  /\ pair' = IF pair.stage = "popped"
               THEN [stage |-> "pushed", before |-> pair.before]
               ELSE NoPair
  /\ FreshAfter(IF N = 0 THEN NoFresh
                ELSE CHOOSE f \in push_back(fresh, item) : TRUE)
  /\ UNCHANGED trapped

\* pop_front() under its precondition count > 0
PopFront ==
  /\ ~trapped
  /\ size_ > 0
  /\ Become(pop_front(Self))
  /\ Remember("pop_front", 0, NoRet)
  /\ LogOther
  /\ pair' = IF track = "calls" /\ N > 0 /\ size_ <= N
               THEN [stage |-> "popped", before |-> Logical(Self)]
               ELSE NoPair
  /\ FreshAfter(IF N = 0 THEN NoFresh ELSE pop_front(fresh))
  /\ UNCHANGED <<oob, trapped>>

\* pop_front() called against its precondition, on an empty buffer
PopFrontEmpty ==
  /\ ~trapped
  /\ size_ = 0
  /\ Become(pop_front(Self))
  /\ Remember("pop_front", 0, NoRet)
  /\ LogOther
  /\ pair' = NoPair
  /\ FreshAfter(IF N = 0 THEN NoFresh ELSE pop_front(fresh))
  /\ UNCHANGED <<oob, trapped>>

Clear ==
  /\ ~trapped
  /\ Become(clear(Self))
  /\ Remember("clear", 0, NoRet)
  /\ LogOther
  /\ pair' = NoPair
  /\ fresh' = IF track = "twin" /\ N > 0
                THEN Constructed([i \in 0 .. (Cap - 1) |-> Default])
                ELSE NoFresh
  /\ UNCHANGED <<oob, trapped>>

Fill(u) ==
  /\ ~trapped
  /\ fill_divides_by_zero(Self) => oob < MaxOob
  /\ \/ /\ \E s \in fill(Self, u) : Become(s)
        /\ oob' = IF fill_divides_by_zero(Self) THEN oob + 1 ELSE oob
        /\ UNCHANGED trapped
     \/ /\ fill_divides_by_zero(Self)
        /\ trapped' = TRUE
        /\ Unchanged
        /\ UNCHANGED oob
  /\ Remember("fill", u, NoRet)
  /\ LogOther
  /\ pair' = NoPair
  /\ FreshAfter(IF N = 0 THEN NoFresh
                ELSE CHOOSE f \in fill(fresh, u) : TRUE)

\* the accessors leave the object alone
Accessor(op, arg, ret) ==
  /\ ~trapped
  /\ Unchanged
  /\ Remember(op, arg, ret)
  /\ LogOther
  /\ pair' = NoPair
  /\ UNCHANGED <<oob, trapped, fresh>>

At(i) ==
  /\ i \in Indices
  /\ Accessor("at", i, at(Self, i))

\* front() and back() under their precondition: N > 0 and not empty
NonEmpty == N > 0 /\ size_ > 0 /\ size_ <= N

Front == NonEmpty /\ Accessor("front", 0, front(Self))

Back == NonEmpty /\ Accessor("back", 0, back(Self))

BackConst ==
  /\ NonEmpty
  /\ \E r \in back_const(Self) : Accessor("back_const", 0, r)

\* a traversal rbegin()..rend() reading every element; dereferencing needs
\* N > 0
ReverseTraverse ==
  /\ N > 0 /\ size_ <= N
  /\ LET q == reverse_positions(Self, rbegin(Self))
     IN  Accessor("reverse", 0,
                  [kind |-> "range", idx |-> q, val |-> Deref(Self, q)])

Next ==
  \/ \E item \in Items : PushBack(item)
  \/ PopFront
  \/ Clear
  \/ \E u \in Items : Fill(u)
  \/ \E i \in Indices : At(i)
  \/ Front
  \/ Back
  \/ BackConst
  \/ ReverseTraverse

Spec == Init /\ [][Next]_vars

SpecTwin == InitTwin /\ [][Next]_vars

TypeOK ==
  /\ N \in 0 .. MaxN
  /\ buffer_ \in [0 .. (Cap - 1) -> Values]
  /\ size_ \in 0 .. (SizeMod - 1)
  /\ tail_ \in 0 .. (SizeMod - 1)
  /\ _head \in 0 .. (SizeMod - 1)
  /\ oob \in 0 .. MaxOob
  /\ trapped \in BOOLEAN

\* only push_back and clear are called
NextPushClear ==
  \/ \E item \in Items : PushBack(item)
  \/ Clear

SpecPushClear == Init /\ [][NextPushClear]_vars

\* ------------------------------------------------------ iterator actions
\* an iterator expression leaves the buffer and its bookkeeping alone
IterStep(new, res) ==
  /\ it' = new
  /\ itres' = res
  /\ UNCHANGED <<N, buffer_, size_, tail_, _head, oob, trapped, track, last,
                 pair, pushlog, pushOnly, fresh>>

IterRes(op, n, a, b) ==
  [op |-> op, n |-> n, a |-> a, b |-> b,
   eq |-> operator_eq(a, b), ne |-> operator_ne(a, b)]

\* it = begin()
IterBegin ==
  /\ ~trapped
  /\ IterStep(iterator("this", begin(Self)),
              IterRes("begin", 0, it, iterator("this", begin(Self))))

\* it = end()
IterEnd ==
  /\ ~trapped
  /\ IterStep(iterator("this", end(Self)),
              IterRes("end", 0, it, iterator("this", end(Self))))

\* ++it
IterIncrement ==
  /\ ~trapped
  /\ IterStep(iterator(it.buf, iter_incr(it.pos)),
              IterRes("++", 1, it, iterator(it.buf, iter_incr(it.pos))))

\* --it
IterDecrement ==
  /\ ~trapped
  /\ IterStep(iterator(it.buf, iter_decr(it.pos)),
              IterRes("--", 1, it, iterator(it.buf, iter_decr(it.pos))))

\* it = it + n, it += n
IterPlus(n) ==
  /\ ~trapped
  /\ IterStep(iterator(it.buf, iter_plus(it.pos, n)),
              IterRes("+", n, it, iterator(it.buf, iter_plus(it.pos, n))))

\* it = it - n, it -= n
IterMinus(n) ==
  /\ ~trapped
  /\ IterStep(iterator(it.buf, iter_minus(it.pos, n)),
              IterRes("-", n, it, iterator(it.buf, iter_minus(it.pos, n))))

\* it == other and it != other, for an iterator other of this or of another
\* buffer, at the position of it or next to it
IterCompare(other) ==
  /\ ~trapped
  /\ IterStep(it, IterRes("compare", 0, it, other))

\* callers that traverse the buffer while it is pushed to, popped and
\* cleared; the element values play no part, one item is pushed
NextIter ==
  \/ PushBack(1)
  \/ PopFront
  \/ Clear
  \/ IterBegin
  \/ IterEnd
  \/ IterIncrement
  \/ IterDecrement
  \/ \E n \in Offsets : IterPlus(n)
  \/ \E n \in Offsets : IterMinus(n)
  \/ \E b \in Instances : \E p \in {it.pos, iter_incr(it.pos)} :
       IterCompare(iterator(b, p))

SpecIter == InitIter /\ [][NextIter]_vars

\* callers of push_back, pop_front and clear that do not check empty()
\* before pop_front()
NextUnchecked ==
  \/ \E item \in Items : PushBack(item)
  \/ PopFront
  \/ PopFrontEmpty
  \/ Clear

SpecUnchecked == Init /\ [][NextUnchecked]_vars

\* ---------------------------------------------------------------- claims
\* the last n elements of a sequence
LastN(q, n) == SubSeq(q, Len(q) - n + 1, Len(q))

\* C1: after k push_back calls on a new buffer, 1 <= k <= N, and nothing
\* else, size() is k and positions 0..k-1 hold the pushed items in push order
C1_PushedInOrder ==
  (pushOnly /\ N >= 1 /\ Len(pushlog) >= 1 /\ Len(pushlog) <= N)
    => /\ size(Self) = Len(pushlog)
       /\ Logical(Self) = pushlog

\* C2: after N+k push_back calls (k >= 1) on a new buffer size() is N and
\* the contents are the last N pushed items in push order; one pop_front
\* after that leaves the last N-1 of them
C2_KeepsLastN ==
  /\ (pushOnly /\ N >= 1 /\ Len(pushlog) > N)
       => /\ size(Self) = N
          /\ Logical(Self) = LastN(pushlog, N)
  /\ (~pushOnly /\ last.op = "pop_front" /\ N >= 1 /\ Len(pushlog) > N)
       => /\ size(Self) = N - 1
          /\ Logical(Self) = LastN(pushlog, N - 1)

\* C3: push_back(x) on a buffer that is not full (count < N) evicts nothing:
\* size() grows by one and the contents are the old contents followed by x
C3_PushAppends ==
  (last.op = "push_back" /\ size(last.pre) < N)
    => /\ size(Self) = size(last.pre) + 1
       /\ Logical(Self) = Append(Logical(last.pre), last.arg)

\* C4: a pop_front(); push_back(x) pair on a non-empty buffer leaves the old
\* contents without their first element, followed by x
C4_PopPushKeepsOrder ==
  pair.stage = "pushed"
    => /\ last.op = "push_back"
       /\ size(Self) = Len(pair.before)
       /\ Logical(Self) = Append(Tail(pair.before), last.arg)

\* C4 witness: a pair has run on a buffer holding two elements, with the
\* write wrapping to slot 0
C4_Witness ==
  /\ pair.stage = "pushed"
  /\ Len(pair.before) = 2
  /\ tail_ = 0

\* C5: for every capacity N >= 0 the element count stays within 0..N
C5_CountWithinCapacity == size(Self) >= 0 /\ size(Self) <= N

\* C6: pop_front() on a non-empty buffer removes exactly the oldest element:
\* size() drops by one, position i+1 becomes position i, tail and storage
\* are unchanged
C6_PopRemovesOldest ==
  (last.op = "pop_front" /\ N >= 1 /\ size(last.pre) > 0)
    => /\ size(Self) = size(last.pre) - 1
       /\ Logical(Self) = Tail(Logical(last.pre))
       /\ tail_ = last.pre.tail_
       /\ buffer_ = last.pre.buffer_

\* C6 witness: pop_front() ran on two elements with head on the last slot
C6_Witness ==
  /\ last.op = "pop_front"
  /\ size(last.pre) = 2
  /\ last.pre._head = N - 1

\* C7: at(i) fails with out_of_range for every i >= N and for every i < N
\* yields slot (head + i) mod N, whatever size() is; the object is unchanged
C7_AtChecksCapacity ==
  last.op = "at"
    => /\ Self = last.pre
       /\ last.arg >= N => last.ret.kind = "out_of_range"
       /\ last.arg < N =>
            /\ last.ret.kind = "ref"
            /\ last.ret.idx = (last.pre._head + last.arg) % N
            /\ last.ret.val = last.pre.buffer_[(last.pre._head + last.arg) % N]

\* C7 witness: at(i) succeeded beyond size() on a buffer whose head is not
\* slot 0
C7_Witness ==
  /\ last.op = "at"
  /\ last.ret.kind = "ref"
  /\ last.arg >= size(Self)
  /\ size(Self) > 0
  /\ last.ret.idx # last.arg

\* C8: with N = 0, after any push_back and clear calls, size() is 0 and
\* empty() and full() are both true
C8_ZeroCapacityStaysEmpty ==
  N = 0 => size(Self) = 0 /\ empty(Self) /\ full(Self)

\* C9: clear() leaves the members as construction does and the storage as it
\* was, and from then on the buffer shows the contents a new buffer shows
\* after the same calls
C9_ClearIsReset ==
  /\ [](last.op = "clear"
          => /\ Self = Constructed(buffer_)
             /\ size(Self) = 0
             /\ empty(Self)
             /\ full(Self) = (N = 0))
  /\ [](fresh # NoFresh
          => /\ size(Self) = size(fresh)
             /\ Logical(Self) = Logical(fresh))
  /\ [][last'.op = "clear" => buffer_' = buffer_]_vars

\* C9 witness: after clear() two elements were pushed over storage that
\* still differs from a new buffer's
C9_Witness ==
  /\ fresh # NoFresh
  /\ last.op = "push_back"
  /\ size(Self) = 2
  /\ buffer_ # fresh.buffer_

\* C10: on a non-empty buffer front() is the element at position 0 and
\* back() the element at position size()-1, for the mutable and the const
\* overloads
C10_FrontBack ==
  /\ last.op = "front" => last.ret.val = Logical(last.pre)[1]
  /\ last.op = "back" => last.ret.val = Logical(last.pre)[size(last.pre)]
  /\ last.op = "back_const"
       => last.ret.val = Logical(last.pre)[size(last.pre)]


\* the sequence q back to front
Reversed(q) == [k \in 1 .. Len(q) |-> q[Len(q) + 1 - k]]

\* C11: a traversal rbegin()..rend() visits positions size()-1 down to 0 and
\* yields the elements of begin()..end() in reverse order
C11_ReverseIteration ==
  last.op = "reverse"
    => /\ last.ret.idx = [k \in 1 .. size(last.pre) |-> size(last.pre) - k]
       /\ last.ret.val =
            Reversed(Deref(last.pre, forward_positions(last.pre, begin(last.pre))))
       /\ last.ret.val = Reversed(Logical(last.pre))

\* C11 witness: two different elements were traversed in reverse on a buffer
\* whose contents wrap around the end of the storage
C11_Witness ==
  /\ last.op = "reverse"
  /\ Len(last.ret.val) = 2
  /\ last.ret.val[1] # last.ret.val[2]
  /\ last.pre._head = N - 1


\* the physical slots of the logical window 0..size()-1
Window(s) == { _position_inbuffer_(s, i) : i \in 0 .. (size(s) - 1) }

\* C12: fill(v) assigns v to exactly the positions 0..size()-1: count, head
\* and tail are unchanged and every slot outside the window keeps its value
C12_FillWindowOnly ==
  (last.op = "fill" /\ N >= 1)
    => /\ size_ = last.pre.size_
       /\ _head = last.pre._head
       /\ tail_ = last.pre.tail_
       /\ \A i \in 0 .. (size_ - 1) : Subscript(Self, i) = last.arg
       /\ \A p \in 0 .. (N - 1) :
            p \notin Window(last.pre) => buffer_[p] = last.pre.buffer_[p]

\* C12 witness: fill(v) ran on a buffer holding an element other than v,
\* with another value in a slot outside the window
C12_Witness ==
  /\ last.op = "fill"
  /\ N >= 1
  /\ size(last.pre) >= 1
  /\ Subscript(last.pre, 0) # last.arg
  /\ \E p \in 0 .. (N - 1) :
       /\ p \notin Window(last.pre)
       /\ buffer_[p] \notin {last.arg, Default}


\* C14: while the buffer is not empty, tail is the slot of the last logical
\* position, tail == (head + count - 1) mod N, which is the slot push_back
\* wrote last, and position i lies in slot (head + i) mod N
C14_TailFollowsHead ==
  (N >= 1 /\ size_ > 0)
    => /\ tail_ = (_head + size_ - 1) % N
       /\ \A i \in 0 .. (size_ - 1) :
            _position_inbuffer_(Self, i) = (_head + i) % N
       /\ _position_inbuffer_(Self, size_ - 1) = tail_
       /\ last.op = "push_back" => buffer_[tail_] = last.arg

\* C14 witness: two elements whose window wraps around the end of storage,
\* the second one just pushed
C14_Witness ==
  /\ last.op = "push_back"
  /\ size_ = 2
  /\ tail_ < _head

C16_PushStoresInside ==
  last.op = "push_back"
    => /\ push_back_index(last.pre) < (IF N >= 1 THEN N ELSE 1)
       /\ N = 0 => push_back_index(last.pre) = 0

\* C17: push_back(x) on a full buffer (count == N, as N push_back calls on a
\* new buffer leave it) keeps count at N, advances head and tail by one slot
\* with wrap-around and writes x over the evicted element (new tail == old
\* head), leaving every other slot alone
C17_PushOnFull ==
  /\ (last.op = "push_back" /\ N >= 1 /\ size(last.pre) = N)
       => /\ size_ = N
          /\ _head = (last.pre._head + 1) % N
          /\ tail_ = (last.pre.tail_ + 1) % N
          /\ tail_ = last.pre._head % N
          /\ buffer_ = [last.pre.buffer_ EXCEPT ![last.pre._head % N] = last.arg]
  /\ (pushOnly /\ N >= 1 /\ Len(pushlog) = N + 1)
       => size(last.pre) = N


\* C19: pop_front() on an empty buffer is not guarded: count wraps to the
\* largest value of its type, head advances, and afterwards empty() is false
\* and size() exceeds N
C19_PopOnEmptyUnderflows ==
  (last.op = "pop_front" /\ size(last.pre) = 0)
    => /\ size(Self) = SizeMod - 1
       /\ _head = IF last.pre._head + 1 = N THEN 0
                  ELSE (last.pre._head + 1) % SizeMod
       /\ ~empty(Self)
       /\ size(Self) > N
       /\ tail_ = last.pre.tail_
       /\ buffer_ = last.pre.buffer_
       /\ ~trapped

\* C19 witness: pop_front() ran on an empty buffer that had been used
C19_Witness ==
  /\ last.op = "pop_front"
  /\ size(last.pre) = 0
  /\ N >= 2
  /\ last.pre.tail_ # 0


\* C13: two iterators are equal exactly when they belong to the same buffer
\* and hold the same position; iterators of different buffers are never
\* equal; operator!= is the negation of operator==
C13_IteratorEquality ==
  itres.op = "compare"
    => /\ itres.eq <=> (itres.a.buf = itres.b.buf /\ itres.a.pos = itres.b.pos)
       /\ itres.a.buf # itres.b.buf => ~itres.eq
       /\ itres.ne <=> ~itres.eq

\* C13 witness: an end() iterator of a non-empty buffer was compared with
\* an iterator of another buffer at the same position
C13_Witness ==
  /\ itres.op = "compare"
  /\ itres.a.buf # itres.b.buf
  /\ itres.a.pos = itres.b.pos
  /\ itres.a.pos = size(Self)
  /\ size(Self) > 0

\* n applications of operator++
RECURSIVE IncrTimes(_, _)
IncrTimes(pos, n) == IF n = 0 THEN pos ELSE IncrTimes(iter_incr(pos), n - 1)

\* C18: with positions modulo 2^w, it + n is n applications of ++,
\* (it + n) - n == it, ++ followed by -- gives it back, and in every buffer
\* state begin() + size() == end(), reached from begin() by exactly size()
\* increments
C18_IteratorArithmetic ==
  /\ itres.op = "+" =>
       /\ itres.b.pos = IncrTimes(itres.a.pos, itres.n)
       /\ itres.b.buf = itres.a.buf
  /\ \A n \in Offsets :
       operator_eq(iterator(it.buf, iter_minus(iter_plus(it.pos, n), n)), it)
  /\ operator_eq(iterator(it.buf, iter_decr(iter_incr(it.pos))), it)
  /\ operator_eq(iterator("this", iter_plus(begin(Self), size(Self))),
                 iterator("this", end(Self)))
  /\ IncrTimes(begin(Self), size(Self)) = end(Self)
  /\ Len(forward_positions(Self, begin(Self))) = size(Self)

\* C18 witness: it + n with n >= 2 wrapped the position past 2^w - 1 on a
\* buffer holding two elements
C18_Witness ==
  /\ itres.op = "+"
  /\ itres.n >= 2
  /\ itres.b.pos < itres.a.pos
  /\ size(Self) = 2

====
